---- MODULE Spec2Model ----
(***************************************************************************)
(* Sybil-Defender: the batch-triggered flush of src/src/agent.py           *)
(* (handle_transaction, handle_transaction_async, process_transactions)    *)
(* and the key migration of                                                *)
(* src/alembic/versions/f04874bb37a6_changed_id_to_integer.py.             *)
(*                                                                         *)
(* Events are handled one at a time (run_until_complete), so the handler   *)
(* is one sequential process whose position is pc.  Every awaited call or  *)
(* library call of the flush may raise; an exception is not caught         *)
(* anywhere in process_transactions or around it, so it unwinds to the     *)
(* caller of handle_transaction.                                           *)
(***************************************************************************)
EXTENDS Integers, Sequences, FiniteSets, TLC

\* ------------------------------------------------------------- bounds
\* batch threshold (src.utils.constants.N, imported at agent.py:32)
N == 2
\* admitted events handled in one run of the model
MaxAdmitted == 4

Addr == {"A", "B"}
Edges == {e \in Addr \X Addr : e[1] # e[2]}
\* the transfers an event may carry: sender, receiver, amount
Events == {[edge |-> <<"A", "B">>, amount |-> 1],
           [edge |-> <<"B", "A">>, amount |-> 2]}
\* the two kinds of row add_transaction_to_db stores
Kinds == {"transfer", "contract"}
\* no final_graph.graphml on disk
NoFile == <<>>

VARIABLES
    pc,                   \* position of the handler
    is_graph_initialized, \* globals.is_graph_initialized
    transaction_counter,  \* globals.transaction_counter
    Transfers,            \* table Transfer, oldest row first
    ContractTransactions, \* number of rows of table ContractTransaction
    next_id,              \* next primary key of table Transfer
    G1,                   \* globals.G1: weight of each edge, 0 when absent
    global_added_edges,   \* globals.global_added_edges
    G2,                   \* globals.G2: the durable community graph
    is_initial_batch,     \* globals.is_initial_batch
    final_graph_file,     \* src/graph/graphs/final_graph.graphml
    suspicious_clusters,  \* clusters written by write_graph_to_database
    transfers,            \* process_transactions: rows pulled by this flush
    updated_subgraph,     \* process_transactions: communities of the batch
    analyzed_subgraph,    \* process_transactions: communities kept by analysis
    final_graph,          \* process_transactions: the final graph being built
    findings,             \* process_transactions: its result
    ret,                  \* what the last handler call returned
    outcome,              \* how the last handler call ended
    last_flush,           \* how the most recent flush ended
    batch,                \* ids of the rows the last flush pulled
    evicted,              \* rows deleted by the running shed_oldest_Transfers
    pre,                  \* durable state when the current flush started
    admitted,             \* admitted events so far
    committed,            \* per edge, the amounts of all rows ever committed
    revision,             \* migration: where the schema stands
    eoas_id,              \* migration: type of eoas.id
    clusters_id,          \* migration: type of suspicious_clusters.id
    eoas_cluster_ref,     \* migration: type of the EOA cluster reference
    eoas_rows,            \* migration: rows of eoas
    clusters_rows,        \* migration: rows of suspicious_clusters
    attr_pc,              \* attributes: the statement of lines 132-155 reached
    final_graph_data,     \* attributes: data of final_graph's nodes and edges
    original_data,        \* attributes: the data as merge_final_graphs left it
    persisted_data        \* attributes: the data in final_graph.graphml

agentVars == <<pc, is_graph_initialized, transaction_counter, Transfers,
               ContractTransactions, next_id, G1, global_added_edges, G2,
               is_initial_batch, final_graph_file, suspicious_clusters,
               transfers, updated_subgraph, analyzed_subgraph, final_graph,
               findings, ret, outcome, last_flush, batch, evicted, pre,
               admitted, committed>>
migrationVars == <<revision, eoas_id, clusters_id, eoas_cluster_ref, eoas_rows,
                   clusters_rows>>
attributeVars == <<attr_pc, final_graph_data, original_data, persisted_data>>
vars == <<agentVars, migrationVars, attributeVars>>

\* ------------------------------------------------------------ helpers
EmptyGraph == [e \in Edges |-> 0]

\* a query that returns only the oldest unprocessed row
UnprocessedLimitOne(tbl) ==
    LET u == SelectSeq(tbl, LAMBDA r : ~r.processed)
    IN IF u = <<>> THEN u ELSE <<Head(u)>>

\* select(Transfer).where(Transfer.processed == False)
Unprocessed(tbl) == SelectSeq(tbl, LAMBDA r : ~r.processed)

Ids(ts) == {ts[i].id : i \in DOMAIN ts}

\* add_transactions_to_graph: weight += amount for each transfer
RECURSIVE add_transactions_to_graph(_, _)
add_transactions_to_graph(g, ts) ==
    IF ts = <<>> THEN g
    ELSE add_transactions_to_graph(
             [g EXCEPT ![Head(ts).edge] = @ + Head(ts).amount], Tail(ts))

\* the edges add_transactions_to_graph returns
added_edges(ts) == {ts[i].edge : i \in DOMAIN ts}

\* nodes of G1.edge_subgraph(global_added_edges)
SubgraphNodes(g, es) ==
    UNION {{e[1], e[2]} : e \in {x \in es : g[x] > 0}}

\* the total partitions of a node set into disjoint communities
Partitions(S) ==
    {P \in SUBSET (SUBSET S \ {{}}) :
        /\ UNION P = S
        /\ \A c, d \in P : c # d => c \cap d = {}}

\* merge_final_graphs: overlapping clusters combine membership
RECURSIVE merge_final_graphs(_, _)
merge_final_graphs(new, old) ==
    IF new = {} THEN old
    ELSE LET c == CHOOSE x \in new : TRUE
             hit == {d \in old : d \cap c # {}}
         IN merge_final_graphs(new \ {c},
                               (old \ hit) \cup {UNION (hit \cup {c})})

\* one Finding per cluster of the final graph
RECURSIVE write_graph_to_database(_)
write_graph_to_database(fg) ==
    IF fg = {} THEN <<>>
    ELSE LET c == CHOOSE x \in fg : \A y \in fg : Cardinality(x) >= Cardinality(y)
         IN <<c>> \o write_graph_to_database(fg \ {c})

\* save_graph: the file then holds the graph
save_graph(g) == <<g>>

\* load_graph: the graph the file holds
load_graph(f) == f[1]

\* ------------------------------------------------- the handler's steps
\* update_transaction_counter()
update_transaction_counter(c) == c + 1

\* the counter left alone when the insert failed
CounterOnlyWhenStored(c, stored) ==
    IF stored THEN update_transaction_counter(c) ELSE c

\* the counter after the insert attempt: the except branch only rolls back,
\* update_transaction_counter() runs after the session block either way
CounterAfterInsert(c, stored) == update_transaction_counter(c)

\* a rejected event counted like an admitted one
CounterAfterRejectedCounted(c) == update_transaction_counter(c)

\* the counter after a rejected event: return [] comes before any update
CounterAfterRejected(c) == c

\* the threshold compared with > instead of >=
FlushDueStrict(c) == c > N

\* if globals.transaction_counter >= N
FlushDue(c) == c >= N

\* return [] of a rejected event
ReturnRejected == <<>>

\* the findings list kept across calls instead of starting empty
ReturnPreviousFindings == ret

\* return [] of an admitted event that starts no flush
ReturnNoFlush == <<>>

\* globals.transaction_counter = 0
CounterAfterFlush == 0

\* the edges kept after a completed flush
AddedEdgesKept == global_added_edges

\* globals.global_added_edges = []
AddedEdgesAfterFlush == {}

\* the exception swallowed around process_transactions: eviction still runs
AfterRaiseSwallowed == "shed_transfers"

\* where an exception raised inside process_transactions leaves the handler:
\* nothing catches it, so the handler is left and no later line runs
AfterRaise == "idle"

\* only the first pulled transfer is marked
MarkProcessedFirstOnly(tbl, ts) ==
    [i \in DOMAIN tbl |->
        IF ts # <<>> /\ tbl[i].id = Head(ts).id
        THEN [tbl[i] EXCEPT !.processed = TRUE]
        ELSE tbl[i]]

\* for transfer in transfers: transfer.processed = True
MarkProcessed(tbl, ts) ==
    [i \in DOMAIN tbl |->
        IF tbl[i].id \in Ids(ts) THEN [tbl[i] EXCEPT !.processed = TRUE]
        ELSE tbl[i]]

\* shed_oldest_Transfers deleting the k oldest rows
shed_oldest_Transfers(tbl, k) == SubSeq(tbl, k + 1, Len(tbl))

\* the exception swallowed inside process_transactions, which goes on to
\* mark the transfers
PipelineRaisesThenMark ==
    /\ pc' = "mark"
    /\ UNCHANGED <<outcome, last_flush, ret, transfers, updated_subgraph,
                   analyzed_subgraph, final_graph, findings>>

\* an exception leaves process_transactions
PipelineRaises ==
    /\ pc' = AfterRaise
    /\ outcome' = "raised"
    /\ last_flush' = "failed"
    /\ ret' = <<>>
    /\ transfers' = <<>>
    /\ updated_subgraph' = {}
    /\ analyzed_subgraph' = {}
    /\ final_graph' = {}
    /\ findings' = <<>>

\* an exception leaves shed_oldest_Transfers or shed_oldest_ContractTransactions
EvictionRaises ==
    /\ pc' = "idle"
    /\ outcome' = "evict_raised"
    /\ last_flush' = "failed"
    /\ ret' = <<>>

InitAgent ==
    /\ pc = "idle"
    /\ is_graph_initialized = FALSE
    /\ transaction_counter = 0
    /\ Transfers = <<>>
    /\ ContractTransactions = 0
    /\ next_id = 1
    /\ G1 = EmptyGraph
    /\ global_added_edges = {}
    /\ G2 = {}
    /\ is_initial_batch = TRUE
    /\ final_graph_file = NoFile
    /\ suspicious_clusters = {}
    /\ transfers = <<>>
    /\ updated_subgraph = {}
    /\ analyzed_subgraph = {}
    /\ final_graph = {}
    /\ findings = <<>>
    /\ ret = <<>>
    /\ outcome = "none"
    /\ last_flush = "none"
    /\ batch = {}
    /\ evicted = {}
    /\ pre = [file |-> NoFile, G2 |-> {}, counter |-> 0]
    /\ admitted = 0
    /\ committed = EmptyGraph

\* the schema of revision 68e52046e5fb, with no rows
InitSchema ==
    /\ revision = "68e52046e5fb"
    /\ eoas_id = "VARCHAR"
    /\ clusters_id = "VARCHAR"
    /\ eoas_cluster_ref = "VARCHAR"
    /\ eoas_rows = {}
    /\ clusters_rows = {}

\* the data of a graph without nodes
NoData == [nodes |-> <<>>, edges |-> <<>>]

\* no final graph has been built or persisted
InitAttributes ==
    /\ attr_pc = "merge"
    /\ final_graph_data = NoData
    /\ original_data = NoData
    /\ persisted_data = NoFile

Init == InitAgent /\ InitSchema /\ InitAttributes

\* a call of handle_transaction starts: findings = [] and the locals of the
\* previous call are gone
NewCall ==
    /\ is_graph_initialized' = TRUE
    /\ G1' = IF is_graph_initialized THEN G1 ELSE EmptyGraph
    /\ transfers' = <<>>
    /\ updated_subgraph' = {}
    /\ analyzed_subgraph' = {}
    /\ final_graph' = {}
    /\ findings' = <<>>
    /\ batch' = {}
    /\ evicted' = {}

\* apply_initial_heuristics rejects the event
Rejected ==
    /\ pc = "idle"
    /\ NewCall
    /\ ret' = ReturnRejected
    /\ outcome' = "rejected"
    /\ pre' = [file |-> final_graph_file, G2 |-> G2,
               counter |-> transaction_counter]
    /\ transaction_counter' = CounterAfterRejected(transaction_counter)
    /\ UNCHANGED <<pc, Transfers, ContractTransactions, next_id,
                   global_added_edges, G2, is_initial_batch, final_graph_file,
                   suspicious_clusters, last_flush, admitted>>
    /\ UNCHANGED <<committed, migrationVars, attributeVars>>

\* the event is admitted: insert, count, and start a flush when due
Admitted(kind, ev, stored) ==
    /\ pc = "idle"
    /\ admitted < MaxAdmitted
    /\ NewCall
    /\ admitted' = admitted + 1
    /\ IF stored /\ kind = "transfer"
       THEN /\ Transfers' = Append(Transfers,
                   [id |-> next_id, edge |-> ev.edge, amount |-> ev.amount,
                    processed |-> FALSE])
            /\ next_id' = next_id + 1
            /\ committed' = [committed EXCEPT ![ev.edge] = @ + ev.amount]
       ELSE UNCHANGED <<Transfers, next_id, committed>>
    /\ ContractTransactions' =
           IF stored /\ kind = "contract" THEN ContractTransactions + 1
           ELSE ContractTransactions
    /\ transaction_counter' = CounterAfterInsert(transaction_counter, stored)
    /\ pre' = [file |-> final_graph_file, G2 |-> G2,
               counter |-> transaction_counter']
    /\ IF FlushDue(transaction_counter')
       THEN /\ pc' = "pull"
            /\ outcome' = "flushing"
            /\ ret' = <<>>
       ELSE /\ pc' = "idle"
            /\ outcome' = "admitted"
            /\ ret' = ReturnNoFlush
    /\ UNCHANGED <<global_added_edges, G2, is_initial_batch, final_graph_file,
                   suspicious_clusters, last_flush>>
    /\ UNCHANGED <<migrationVars, attributeVars>>

HandleTransaction ==
    \E kind \in Kinds, ev \in Events, stored \in BOOLEAN :
        Admitted(kind, ev, stored)

\* ------------------------------------------------ process_transactions
\* the stage ended without an exception
Continue(next) ==
    /\ pc' = next
    /\ UNCHANGED <<ret, outcome, last_flush>>

\* session.execute(select(Transfer).where(Transfer.processed == False))
Pull ==
    /\ pc = "pull"
    /\ \/ /\ transfers' = Unprocessed(Transfers)
          /\ batch' = Ids(transfers')
          /\ Continue("build")
          /\ UNCHANGED <<updated_subgraph, analyzed_subgraph, final_graph,
                         findings>>
       \/ /\ PipelineRaises
          /\ UNCHANGED batch
    /\ UNCHANGED <<is_graph_initialized, transaction_counter, Transfers,
                   ContractTransactions, next_id, G1, global_added_edges, G2,
                   is_initial_batch, final_graph_file, suspicious_clusters,
                   evicted, pre, admitted>>
    /\ UNCHANGED <<committed, migrationVars, attributeVars>>

\* add_transactions_to_graph ... nx.write_graphml(globals.G1, ...)
Build ==
    /\ pc = "build"
    /\ \/ /\ G1' = add_transactions_to_graph(G1, transfers)
          /\ global_added_edges' = global_added_edges \cup added_edges(transfers)
          /\ \/ /\ Continue("partition")
                /\ UNCHANGED <<transfers, updated_subgraph, analyzed_subgraph,
                               final_graph, findings>>
             \/ PipelineRaises
       \/ /\ PipelineRaises
          /\ UNCHANGED <<G1, global_added_edges>>
    /\ UNCHANGED <<is_graph_initialized, transaction_counter, Transfers,
                   ContractTransactions, next_id, G2, is_initial_batch,
                   final_graph_file, suspicious_clusters, batch, evicted, pre,
                   admitted>>
    /\ UNCHANGED <<committed, migrationVars, attributeVars>>

\* edge_subgraph, run_algorithm, process_partitions
Partition ==
    /\ pc = "partition"
    /\ \/ /\ \E P \in Partitions(SubgraphNodes(G1, global_added_edges)) :
                 updated_subgraph' = P
          /\ Continue("analyze")
          /\ UNCHANGED <<transfers, analyzed_subgraph, final_graph, findings>>
       \/ PipelineRaises
    /\ UNCHANGED <<is_graph_initialized, transaction_counter, Transfers,
                   ContractTransactions, next_id, G1, global_added_edges, G2,
                   is_initial_batch, final_graph_file, suspicious_clusters,
                   batch, evicted, pre, admitted>>
    /\ UNCHANGED <<committed, migrationVars, attributeVars>>

\* nx.write_graphml(globals.G2, ...), analyze_communities
Analyze ==
    /\ pc = "analyze"
    /\ \/ /\ \E S \in SUBSET updated_subgraph : analyzed_subgraph' = S
          /\ Continue("load_final")
          /\ UNCHANGED <<transfers, updated_subgraph, final_graph, findings>>
       \/ PipelineRaises
    /\ UNCHANGED <<is_graph_initialized, transaction_counter, Transfers,
                   ContractTransactions, next_id, G1, global_added_edges, G2,
                   is_initial_batch, final_graph_file, suspicious_clusters,
                   batch, evicted, pre, admitted>>
    /\ UNCHANGED <<committed, migrationVars, attributeVars>>

\* if not globals.is_initial_batch: load_graph(...) else: nx.Graph()
LoadFinal ==
    /\ pc = "load_final"
    /\ \/ /\ ~is_initial_batch
          /\ final_graph_file # NoFile
          /\ final_graph' = load_graph(final_graph_file)
          /\ Continue("merge_final")
          /\ UNCHANGED <<is_initial_batch, transfers, updated_subgraph,
                         analyzed_subgraph, findings>>
       \/ /\ ~is_initial_batch
          /\ PipelineRaises
          /\ UNCHANGED is_initial_batch
       \/ /\ is_initial_batch
          /\ final_graph' = {}
          /\ is_initial_batch' = FALSE
          /\ Continue("merge_final")
          /\ UNCHANGED <<transfers, updated_subgraph, analyzed_subgraph,
                         findings>>
    /\ UNCHANGED <<is_graph_initialized, transaction_counter, Transfers,
                   ContractTransactions, next_id, G1, global_added_edges, G2,
                   final_graph_file, suspicious_clusters, batch, evicted, pre,
                   admitted>>
    /\ UNCHANGED <<committed, migrationVars, attributeVars>>

\* merge_final_graphs and the conversion of the attributes
MergeFinal ==
    /\ pc = "merge_final"
    /\ \/ /\ final_graph' = merge_final_graphs(analyzed_subgraph, final_graph)
          /\ Continue("save")
          /\ UNCHANGED <<transfers, updated_subgraph, analyzed_subgraph,
                         findings>>
       \/ PipelineRaises
    /\ UNCHANGED <<is_graph_initialized, transaction_counter, Transfers,
                   ContractTransactions, next_id, G1, global_added_edges, G2,
                   is_initial_batch, final_graph_file, suspicious_clusters,
                   batch, evicted, pre, admitted>>
    /\ UNCHANGED <<committed, migrationVars, attributeVars>>

\* save_graph(final_graph, "src/graph/graphs/final_graph.graphml")
Save ==
    /\ pc = "save"
    /\ \/ /\ final_graph_file' = save_graph(final_graph)
          /\ Continue("write_db")
          /\ UNCHANGED <<transfers, updated_subgraph, analyzed_subgraph,
                         final_graph, findings>>
       \/ /\ PipelineRaises
          /\ UNCHANGED final_graph_file
    /\ UNCHANGED <<is_graph_initialized, transaction_counter, Transfers,
                   ContractTransactions, next_id, G1, global_added_edges, G2,
                   is_initial_batch, suspicious_clusters, batch, evicted, pre,
                   admitted>>
    /\ UNCHANGED <<committed, migrationVars, attributeVars>>

\* findings = await write_graph_to_database(final_graph)
WriteDb ==
    /\ pc = "write_db"
    /\ \/ /\ findings' = write_graph_to_database(final_graph)
          /\ suspicious_clusters' = final_graph
          /\ Continue("mark")
          /\ UNCHANGED <<transfers, updated_subgraph, analyzed_subgraph,
                         final_graph>>
       \/ /\ PipelineRaises
          /\ UNCHANGED suspicious_clusters
    /\ UNCHANGED <<is_graph_initialized, transaction_counter, Transfers,
                   ContractTransactions, next_id, G1, global_added_edges, G2,
                   is_initial_batch, final_graph_file, batch, evicted, pre,
                   admitted>>
    /\ UNCHANGED <<committed, migrationVars, attributeVars>>

\* transfer.processed = True, session.commit(), global_added_edges = [],
\* return findings: the locals of process_transactions are gone
Mark ==
    /\ pc = "mark"
    /\ \/ /\ Transfers' = MarkProcessed(Transfers, transfers)
          /\ global_added_edges' = AddedEdgesAfterFlush
          /\ Continue("shed_transfers")
          /\ transfers' = <<>>
          /\ updated_subgraph' = {}
          /\ analyzed_subgraph' = {}
          /\ final_graph' = {}
          /\ UNCHANGED findings
       \/ /\ PipelineRaises
          /\ UNCHANGED <<Transfers, global_added_edges>>
    /\ UNCHANGED <<is_graph_initialized, transaction_counter,
                   ContractTransactions, next_id, G1, G2, is_initial_batch,
                   final_graph_file, suspicious_clusters, batch, evicted, pre,
                   admitted>>
    /\ UNCHANGED <<committed, migrationVars, attributeVars>>

\* ------------------------------------------- eviction and counter reset
\* await shed_oldest_Transfers()
ShedTransfers ==
    /\ pc = "shed_transfers"
    /\ \/ /\ \E k \in 0..Len(Transfers) :
                 /\ Transfers' = shed_oldest_Transfers(Transfers, k)
                 /\ evicted' = {Transfers[i] : i \in 1..k}
          /\ Continue("shed_contract")
       \/ /\ EvictionRaises
          /\ UNCHANGED <<Transfers, evicted>>
    /\ UNCHANGED <<is_graph_initialized, transaction_counter,
                   ContractTransactions, next_id, G1, global_added_edges, G2,
                   is_initial_batch, final_graph_file, suspicious_clusters,
                   transfers, updated_subgraph, analyzed_subgraph, final_graph,
                   findings, batch, pre, admitted>>
    /\ UNCHANGED <<committed, migrationVars, attributeVars>>

\* await shed_oldest_ContractTransactions()
ShedContract ==
    /\ pc = "shed_contract"
    /\ \/ /\ \E k \in 0..ContractTransactions :
                 ContractTransactions' = ContractTransactions - k
          /\ Continue("reset")
          /\ UNCHANGED evicted
       \/ /\ EvictionRaises
          /\ evicted' = {}
          /\ UNCHANGED ContractTransactions
    /\ UNCHANGED <<is_graph_initialized, transaction_counter, Transfers,
                   next_id, G1, global_added_edges, G2, is_initial_batch,
                   final_graph_file, suspicious_clusters, transfers,
                   updated_subgraph, analyzed_subgraph, final_graph, findings,
                   batch, pre, admitted>>
    /\ UNCHANGED <<committed, migrationVars, attributeVars>>

\* globals.transaction_counter = 0; return findings
Reset ==
    /\ pc = "reset"
    /\ transaction_counter' = CounterAfterFlush
    /\ ret' = findings
    /\ outcome' = "flushed"
    /\ last_flush' = "ok"
    /\ pc' = "idle"
    /\ evicted' = {}
    /\ UNCHANGED <<is_graph_initialized, Transfers, ContractTransactions,
                   next_id, G1, global_added_edges, G2, is_initial_batch,
                   final_graph_file, suspicious_clusters, transfers,
                   updated_subgraph, analyzed_subgraph, final_graph, findings,
                   batch, pre, admitted>>
    /\ UNCHANGED <<committed, migrationVars, attributeVars>>

\* ------------------------- revision f04874bb37a6: changed id to integer
KeyNumbers == {1, 2}
\* a key as the column holds it: a string (VARCHAR(36)) or an integer
Key(type, n) == [type |-> type, n |-> n]
Null == [type |-> "NULL", n |-> 0]

\* a column value after op.alter_column(..., type_=...)
Cast(value, type) ==
    IF value = Null THEN Null ELSE Key(type, value.n)

\* op.alter_column('eoas', 'id', ..., type_=...)
alter_eoas_id(type) ==
    /\ eoas_id' = type
    /\ eoas_rows' = {[r EXCEPT !.id = Cast(r.id, type)] : r \in eoas_rows}
    /\ UNCHANGED <<clusters_id, clusters_rows, eoas_cluster_ref>>

\* op.alter_column('suspicious_clusters', 'id', ..., type_=...)
alter_suspicious_clusters_id(type) ==
    /\ clusters_id' = type
    /\ clusters_rows' = {Cast(k, type) : k \in clusters_rows}
    /\ UNCHANGED <<eoas_id, eoas_rows, eoas_cluster_ref>>

\* a database at revision 68e52046e5fb: string keys, and every cluster
\* reference of an EOA is NULL or the key of a stored cluster
MigrationInit ==
    /\ InitAgent
    /\ InitAttributes
    /\ revision = "68e52046e5fb"
    /\ eoas_id = "VARCHAR"
    /\ clusters_id = "VARCHAR"
    /\ eoas_cluster_ref = "VARCHAR"
    /\ clusters_rows \in SUBSET {Key("VARCHAR", n) : n \in KeyNumbers}
    /\ \E ids \in SUBSET KeyNumbers :
           eoas_rows \in {{[id |-> Key("VARCHAR", n), cluster |-> f[n]] : n \in ids} :
                             f \in [ids -> clusters_rows \cup {Null}]}

UpgradeEoas ==
    /\ revision = "68e52046e5fb"
    /\ alter_eoas_id("INTEGER")
    /\ revision' = "upgrading"
    /\ UNCHANGED <<agentVars, attributeVars>>

UpgradeClusters ==
    /\ revision = "upgrading"
    /\ alter_suspicious_clusters_id("INTEGER")
    /\ revision' = "f04874bb37a6"
    /\ UNCHANGED <<agentVars, attributeVars>>

DowngradeClusters ==
    /\ revision = "f04874bb37a6"
    /\ alter_suspicious_clusters_id("VARCHAR")
    /\ revision' = "downgrading"
    /\ UNCHANGED <<agentVars, attributeVars>>

DowngradeEoas ==
    /\ revision = "downgrading"
    /\ alter_eoas_id("VARCHAR")
    /\ revision' = "68e52046e5fb"
    /\ UNCHANGED <<agentVars, attributeVars>>

\* ------------------------------------------------ attributes of final_graph
\* A text is a sequence of tokens. An attribute value is tagged with its
\* Python kind; its content is a sequence of tokens (the items of a list, the
\* name of a type, the text of a string, the digits of an integer).
Value(kind, val) == [kind |-> kind, val |-> val]

\* the attribute values a node or an edge of final_graph may carry
AttrValues ==
    { Value("int", <<"1">>),
      Value("str", <<"[", "1", ",", " ", "2", "]">>),
      Value("list", <<"1", "2">>),
      Value("type", <<"int">>),
      Value("dict", <<"k", "1">>),
      Value("enum", <<"RED">>) }

\* the kinds the persisted graph format can hold
Scalar(v) == v.kind \in {"int", "str"}

\* the items of a list separated as json.dumps separates them
RECURSIVE JoinItems(_)
JoinItems(items) ==
    IF items = <<>> THEN <<>>
    ELSE IF Len(items) = 1 THEN items
    ELSE <<Head(items), ",", " ">> \o JoinItems(Tail(items))

\* json.dumps(value) of a list
json_dumps(items) == <<"[">> \o JoinItems(items) \o <<"]">>

\* str(value) of a type
str(name) == <<"<class '">> \o name \o <<"'>">>

\* the branches of the two loops: a type becomes its str, a list its
\* json.dumps, every other value stays as it is
ConvertAttribute(v) ==
    IF v.kind = "type" THEN Value("str", str(v.val))
    ELSE IF v.kind = "list" THEN Value("str", json_dumps(v.val))
    ELSE v

\* the data of a graph: one attribute on every node, one on every edge
GraphData ==
    UNION { { [nodes |-> nd, edges |-> ed] :
                nd \in [S -> AttrValues],
                ed \in [{e \in Edges : e = <<"A", "B">> /\ S = Addr}
                            -> AttrValues] } :
            S \in SUBSET Addr \ {{}} }

AllScalar(d) ==
    /\ \A n \in DOMAIN d.nodes : Scalar(d.nodes[n])
    /\ \A e \in DOMAIN d.edges : Scalar(d.edges[e])

\* the batch after this one starts by loading when a graph was persisted
NextBatch(file) == IF file = NoFile THEN "merge" ELSE "load"

\* final_graph = load_graph("src/graph/graphs/final_graph.graphml")
LoadAttributes ==
    /\ attr_pc = "load"
    /\ final_graph_data' = load_graph(persisted_data)
    /\ attr_pc' = "loaded"
    /\ UNCHANGED <<original_data, persisted_data>>
    /\ UNCHANGED <<agentVars, migrationVars>>

\* final_graph = merge_final_graphs(analyzed_subgraph, final_graph)
MergeAttributes ==
    /\ attr_pc \in {"merge", "loaded"}
    /\ final_graph_data' \in GraphData
    /\ original_data' = final_graph_data'
    /\ attr_pc' = "convert"
    /\ UNCHANGED persisted_data
    /\ UNCHANGED <<agentVars, migrationVars>>

\* the loops over final_graph.nodes(data=True) and final_graph.edges(data=True)
ConvertAttributes ==
    /\ attr_pc = "convert"
    /\ final_graph_data' =
           [nodes |-> [n \in DOMAIN final_graph_data.nodes |->
                          ConvertAttribute(final_graph_data.nodes[n])],
            edges |-> [e \in DOMAIN final_graph_data.edges |->
                          ConvertAttribute(final_graph_data.edges[e])]]
    /\ attr_pc' = "save"
    /\ UNCHANGED <<original_data, persisted_data>>
    /\ UNCHANGED <<agentVars, migrationVars>>

\* save_graph(final_graph, "src/graph/graphs/final_graph.graphml"): the
\* format holds scalars only, any other value makes the call raise
SaveAttributes ==
    /\ attr_pc = "save"
    /\ \/ /\ AllScalar(final_graph_data)
          /\ persisted_data' = save_graph(final_graph_data)
          /\ attr_pc' = NextBatch(persisted_data')
       \/ /\ ~AllScalar(final_graph_data)
          /\ attr_pc' = NextBatch(persisted_data)
          /\ UNCHANGED persisted_data
    /\ UNCHANGED <<final_graph_data, original_data>>
    /\ UNCHANGED <<agentVars, migrationVars>>

AttributesNext ==
    \/ LoadAttributes
    \/ MergeAttributes
    \/ ConvertAttributes
    \/ SaveAttributes

MigrationNext ==
    \/ UpgradeEoas
    \/ UpgradeClusters
    \/ DowngradeClusters
    \/ DowngradeEoas

Next ==
    \/ Rejected
    \/ HandleTransaction
    \/ Pull
    \/ Build
    \/ Partition
    \/ Analyze
    \/ LoadFinal
    \/ MergeFinal
    \/ Save
    \/ WriteDb
    \/ Mark
    \/ ShedTransfers
    \/ ShedContract
    \/ Reset

\* ------------------------------------------------------------- claims
\* the handler is between two events
Idle == pc = "idle"

\* the handler is past process_transactions: eviction or the counter reset
Evicting == pc \in {"shed_transfers", "shed_contract", "reset"}

\* C1: after a flush in which process_transactions and both eviction calls
\* completed, the counter is 0 and no Transfer is still unprocessed: neither
\* a row the flush pulled nor any other row that was in the store when the
\* flush began (no row is inserted while a flush runs).
C1_FlushLeavesNoUnprocessed ==
    (Idle /\ outcome = "flushed") =>
        /\ transaction_counter = 0
        /\ \A i \in DOMAIN Transfers :
               Transfers[i].id \in batch => Transfers[i].processed
        /\ \A i \in DOMAIN Transfers : Transfers[i].processed

C1_Witness ==
    /\ Idle
    /\ outcome = "flushed"
    /\ Cardinality(batch) >= 2
    /\ \A id \in batch : \E i \in DOMAIN Transfers : Transfers[i].id = id

\* C2: when a stage of process_transactions raised, the handler is back at
\* idle with the persisted final graph, G2 and the counter exactly as they
\* were when the flush started.
C2_FailedFlushChangesNothing ==
    (Idle /\ outcome = "raised") =>
        /\ final_graph_file = pre.file
        /\ G2 = pre.G2
        /\ transaction_counter = pre.counter

\* C3 as stated: between handled events the counter is in [0, N).
C3_CounterBelowN ==
    Idle => (0 <= transaction_counter /\ transaction_counter < N)

\* C3 amended: between handled events the counter is >= 0, and it is >= N
\* exactly when the most recent flush ended with an exception.
C3_CounterBelowNUnlessFlushFailed ==
    Idle =>
        /\ 0 <= transaction_counter
        /\ (transaction_counter >= N) <=> (last_flush = "failed")

C3_Witness ==
    /\ Idle
    /\ outcome = "rejected"
    /\ last_flush = "failed"
    /\ transaction_counter > N

\* C4: when an eviction call raised after process_transactions succeeded,
\* the counter is still reset to 0 and the flush's findings are returned.
C4_EvictionFailureNonFatal ==
    (Idle /\ outcome = "evict_raised") =>
        /\ transaction_counter = 0
        /\ ret = findings

\* C5: rows are evicted and the counter is reset only in a flush whose
\* process_transactions completed without error: eviction is entered only
\* with no exception raised, and no row disappears and the counter is not
\* reset anywhere else.
C5_EvictionAndResetOnlyAfterSuccess ==
    [][/\ Evicting' => outcome' = "flushing"
       /\ ( \/ Len(Transfers') < Len(Transfers)
            \/ ContractTransactions' < ContractTransactions
            \/ transaction_counter' < transaction_counter )
          => (Evicting /\ outcome = "flushing")]_vars

C5_Witness ==
    /\ Idle
    /\ outcome = "raised"
    /\ transaction_counter >= N
    /\ Transfers # <<>>
    /\ ContractTransactions > 0

\* C6: every row shed_oldest_Transfers deletes has processed = true.
C6_EvictedRowsAreProcessed ==
    \A r \in evicted : r.processed

C6_Witness ==
    /\ pc = "shed_contract"
    /\ Cardinality(evicted) >= 2
    /\ Transfers # <<>>

\* C7: when process_transactions completes, G2 contains every community of
\* the batch and still contains every community it held before.
C7_CommunitiesFoldedIntoG2 ==
    [][(pc = "mark" /\ pc' = "shed_transfers") =>
          /\ \A c \in updated_subgraph : \E d \in G2' : c \subseteq d
          /\ \A c \in G2 : \E d \in G2' : c \subseteq d]_vars

\* C8: between events is_initial_batch is false exactly when a final graph
\* has been persisted, and load_graph is only invoked with a persisted file.
C8_LoadOnlyAfterPersist ==
    /\ Idle => (is_initial_batch <=> final_graph_file = NoFile)
    /\ (pc = "load_final" /\ ~is_initial_batch) => final_graph_file # NoFile

\* C9: the handler returns a non-empty findings sequence only for an event
\* that ran a flush to its end; a rejected event and an admitted event that
\* starts no flush return the empty sequence.
C9_FindingsOnlyFromFlush ==
    Idle =>
        /\ ret # <<>> => outcome = "flushed"
        /\ outcome \in {"rejected", "admitted"} => ret = <<>>

C9_Witness ==
    /\ Idle
    /\ outcome = "admitted"
    /\ transaction_counter < N
    /\ suspicious_clusters # {}
    /\ ret = <<>>

\* C10: whenever a key column has been converted to integer, the column
\* referencing it has the same type and every stored reference still names
\* a stored key.
C10_ReferencesFollowKeys ==
    /\ eoas_cluster_ref = clusters_id
    /\ \A r \in eoas_rows : r.cluster = Null \/ r.cluster \in clusters_rows

\* C12 as stated: each stored Transfer is folded into G1 exactly once: the
\* weight of an edge never exceeds the sum of the amounts of the distinct
\* transfers committed over it, also after a flush that failed and was
\* retried, and equals that sum once every stored transfer is processed.
C12_EachTransferFoldedOnce ==
    \A e \in Edges :
        /\ G1[e] <= committed[e]
        /\ (Idle /\ Unprocessed(Transfers) = <<>>) => G1[e] = committed[e]

\* some row not yet processed is processed after the step
SomeRowMarked ==
    \E i \in DOMAIN Transfers : \E j \in DOMAIN Transfers' :
        /\ Transfers'[j].id = Transfers[i].id
        /\ ~Transfers[i].processed
        /\ Transfers'[j].processed

\* C13: within a flush the final graph is persisted and the clusters written
\* before the Transfers are marked processed, eviction comes after the mark
\* and the counter reset after eviction; a row becomes processed only in the
\* mark step of a flush whose earlier stages all succeeded, and a processed
\* row never becomes unprocessed again.
C13_StagesInOrder ==
    [][ /\ SomeRowMarked =>
              /\ pc = "mark"
              /\ outcome = "flushing"
              /\ final_graph_file = save_graph(final_graph)
              /\ suspicious_clusters = final_graph
              /\ pc' = "shed_transfers"
        /\ \A i \in DOMAIN Transfers : \A j \in DOMAIN Transfers' :
              (Transfers'[j].id = Transfers[i].id /\ Transfers[i].processed)
                  => Transfers'[j].processed
        /\ (pc' = "shed_transfers" /\ pc # "shed_transfers") => pc = "mark"
        /\ (pc' = "shed_contract" /\ pc # "shed_contract")
              => pc = "shed_transfers"
        /\ (pc' = "reset" /\ pc # "reset") => pc = "shed_contract"
        /\ transaction_counter' < transaction_counter => pc = "reset"
      ]_vars

\* a flush ran to its end and left a processed row and a persisted graph
C13_Witness ==
    /\ Idle /\ outcome = "flushed"
    /\ final_graph_file # NoFile
    /\ \E i \in DOMAIN Transfers : Transfers[i].processed

\* the step handles an admitted event whose insert or commit failed
FailedInsertStep ==
    /\ pc = "idle"
    /\ admitted' = admitted + 1
    /\ Transfers' = Transfers
    /\ ContractTransactions' = ContractTransactions

\* C14: a failed insert or commit is contained: the store holds no row for
\* the event, no exception reaches the caller, the counter is still
\* incremented by one, and the flush is still started when the counter
\* reaches N.
C14_FailedInsertContained ==
    [][ FailedInsertStep =>
            /\ next_id' = next_id
            /\ committed' = committed
            /\ transaction_counter' = transaction_counter + 1
            /\ outcome' \in {"admitted", "flushing"}
            /\ (transaction_counter' >= N) <=> (pc' = "pull")
      ]_vars

\* N events whose inserts all failed have started a flush over an empty store
C14_Witness ==
    /\ pc = "pull"
    /\ admitted = N
    /\ transaction_counter = N
    /\ Transfers = <<>> /\ ContractTransactions = 0

\* C16: the subgraph handed to run_algorithm is induced by exactly the edges
\* of the transfers of that flush: global_added_edges is empty when a flush
\* starts after a successful one, and always holds only edges of transfers
\* that are still unprocessed.
C16_AddedEdgesAreThisFlush ==
    /\ pc = "partition" => global_added_edges = added_edges(transfers)
    /\ pc = "analyze" =>
          UNION updated_subgraph = SubgraphNodes(G1, added_edges(transfers))
    /\ (pc = "pull" /\ last_flush = "ok") => global_added_edges = {}
    /\ \A e \in global_added_edges :
          \E i \in DOMAIN Transfers :
              ~Transfers[i].processed /\ Transfers[i].edge = e

\* the flush retried after a failed one hands over its subgraph, the edges of
\* the failed flush among them
C16_Witness ==
    /\ pc = "partition"
    /\ last_flush = "failed"
    /\ Len(transfers) > N
    /\ Cardinality(global_added_edges) = 2

\* C17: a rejected event changes nothing, whatever the counter: the store,
\* the counter, G1, global_added_edges, is_initial_batch and the persisted
\* final graph are unchanged, and no flush is started.
C17_RejectedChangesNothing ==
    [][ (pc = "idle" /\ outcome' = "rejected" /\ admitted' = admitted) =>
            /\ UNCHANGED <<Transfers, ContractTransactions, next_id,
                           transaction_counter, G1, global_added_edges,
                           is_initial_batch, final_graph_file>>
            /\ pc' = "idle"
            /\ ret' = <<>>
      ]_vars

\* an event was rejected while a flush was due and transfers were waiting
C17_Witness ==
    /\ Idle /\ outcome = "rejected"
    /\ transaction_counter >= N
    /\ Unprocessed(Transfers) # <<>>
    /\ global_added_edges # {}


\* C11 as stated: persisting the final graph and loading it back on the next
\* batch gives the same nodes and edges, and every attribute that was encoded
\* before saving (a list, a type) is, before the graph is merged again, a value
\* equal to the original.
C11_RoundTripRestoresAttributes ==
    attr_pc = "loaded" =>
        /\ DOMAIN final_graph_data.nodes = DOMAIN original_data.nodes
        /\ DOMAIN final_graph_data.edges = DOMAIN original_data.edges
        /\ \A n \in DOMAIN original_data.nodes :
              original_data.nodes[n].kind \in {"list", "type"}
                  => final_graph_data.nodes[n] = original_data.nodes[n]
        /\ \A e \in DOMAIN original_data.edges :
              original_data.edges[e].kind \in {"list", "type"}
                  => final_graph_data.edges[e] = original_data.edges[e]

\* C15 as stated: when the final graph is handed to save_graph every
\* attribute of every node and edge is a scalar, each value of any other
\* kind having been replaced by a scalar encoding.
C15_OnlyScalarsHandedToSave ==
    attr_pc = "save" => AllScalar(final_graph_data)

\* load_graph has no file to load and the first-batch branch is closed: a
\* flush that starts, or is before its load stage, raises at line 133
FlushCannotComplete ==
    /\ ~is_initial_batch
    /\ final_graph_file = NoFile
    /\ pc \in {"idle", "pull", "build", "partition", "analyze", "load_final"}

\* once no flush can complete none ever will, and no row is marked again
FlushCannotCompleteIsPermanent ==
    [][ FlushCannotComplete => (FlushCannotComplete' /\ ~SomeRowMarked) ]_vars

Spec == Init /\ [][Next]_vars

SpecMigration == MigrationInit /\ [][MigrationNext]_vars

SpecAttributes == Init /\ [][AttributesNext]_vars

====
